---- MODULE Spec2Model ----
(***************************************************************************)
(* Room lifecycle and round scheduler of the draw-and-guess server         *)
(* (src/src/index.ts).  One action per socket event handler and per timer  *)
(* callback; every handler runs to completion (single-threaded event       *)
(* loop).  Strings that the code inspects character by character (words,   *)
(* answers, nicknames) are sequences of UTF-16 code units.                 *)
(***************************************************************************)
EXTENDS Integers, Sequences, FiniteSets, TLC

VARIABLES
    rooms,          \* Map<string, RoomState>: function on the ids in the registry
    socketRoomMap,  \* Map<string, string>: function on the bound socket ids
    timers,         \* pending setTimeout callbacks, in the order they were scheduled;
                    \* endOf is history: the round whose end scheduled a cooldown
    disconnected,   \* sockets whose "disconnect" has been handled (ids are never reused)
    steady,         \* history: rooms whose roster is unchanged since their last accepted startGame
    out             \* the messages emitted by the last step, in emission order

vars == <<rooms, socketRoomMap, timers, disconnected, steady, out>>

-----------------------------------------------------------------------------
(* Bounds of the model *)

MaxTimers == 4      \* pending setTimeout callbacks kept at one time
MaxWins == 1        \* correct guesses one player record may accumulate
MaxLen == 2         \* length of the longest word given to makeChosungHint on its own

SocketIds == {"s1", "s2", "s3"}   \* the connections that ever reach the server
RoomIds == {"r1", "r2"}       \* the room identifiers clients ask for

NULL == "null"      \* null / undefined of drawerId
NoWord == <<>>      \* null / undefined of currentWord (falsy, like "")
NoTimer == 0        \* null of timerId / hintTimerId

-----------------------------------------------------------------------------
(* Constants of the program *)

WORD_POOL ==
    [food   |-> << <<49324, 44284>>, <<48148, 45208, 45208>>,
                   <<54588, 51088>>, <<54660, 48260, 44144>> >>,
     animal |-> << <<44256, 50577, 51060>>, <<44053, 50500, 51648>> >>,
     object |-> << <<51665>>, <<51088, 46041, 52264>>, <<48324>>,
                   <<44396, 47492>>, <<52981>>, <<52293>> >>]

ROUND_DURATION_SEC == 40
ROUND_DURATION_MS == ROUND_DURATION_SEC * 1000
COOLDOWN_MS == 3000
HINT_DELAY_MS == ROUND_DURATION_MS \div 2
DEFAULT_MAX_ROUNDS == 5
REWARD == 10

CHO == <<12593, 12594, 12596, 12599, 12600, 12601, 12609, 12610, 12611,
         12613, 12614, 12615, 12616, 12617, 12618, 12619, 12620, 12621, 12622>>

HANGUL_FIRST == 44032   \* 0xac00
HANGUL_LAST == 55203    \* 0xd7a3

-----------------------------------------------------------------------------
(* String helpers: String.prototype.trim, toLowerCase, Array.from/map/join *)

IsSpace(c) == c \in {9, 10, 11, 12, 13, 32, 160, 65279}

RECURSIVE TrimStart(_)
TrimStart(s) ==
    IF s # <<>> /\ IsSpace(Head(s)) THEN TrimStart(Tail(s)) ELSE s

RECURSIVE TrimEnd(_)
TrimEnd(s) ==
    IF s # <<>> /\ IsSpace(s[Len(s)]) THEN TrimEnd(SubSeq(s, 1, Len(s) - 1)) ELSE s

Trim(s) == TrimEnd(TrimStart(s))

LowerChar(c) == IF c >= 65 /\ c <= 90 THEN c + 32 ELSE c

ToLowerCase(s) == [i \in 1..Len(s) |-> LowerChar(s[i])]

\* faulty variant: the offset is divided by the 28 trailing consonants alone
makeChosungCharByTrail(code) ==
    IF code < HANGUL_FIRST \/ code > HANGUL_LAST
    THEN code
    ELSE LET base == code - HANGUL_FIRST
             choIndex == base \div 28
         IN  IF choIndex + 1 \in DOMAIN CHO THEN CHO[choIndex + 1] ELSE code

makeChosungChar(code) ==
    IF code < HANGUL_FIRST \/ code > HANGUL_LAST
    THEN code
    ELSE LET base == code - HANGUL_FIRST
             choIndex == base \div (21 * 28)
         IN  IF choIndex + 1 \in DOMAIN CHO THEN CHO[choIndex + 1] ELSE code

makeChosungHint(word) == [i \in 1..Len(word) |-> makeChosungChar(word[i])]

-----------------------------------------------------------------------------
(* Word provider *)

getRandomWordList(category) ==
    IF category \in DOMAIN WORD_POOL THEN WORD_POOL[category] ELSE WORD_POOL["food"]

\* the values Math.random can make getRandomWord return
getRandomWord(category) ==
    LET list == getRandomWordList(category)
    IN  {list[i] : i \in 1..Len(list)}

-----------------------------------------------------------------------------
(* Room registry and roster *)

NewRoom(roomId) ==
    [id |-> roomId, players |-> <<>>, drawerId |-> NULL, currentWord |-> NoWord,
     round |-> 0, maxRounds |-> DEFAULT_MAX_ROUNDS, category |-> "food",
     roundActive |-> FALSE, timerId |-> NoTimer, hintTimerId |-> NoTimer]

getOrCreateRoom(rms, roomId) ==
    IF roomId \in DOMAIN rms
    THEN rms
    ELSE [r \in DOMAIN rms \cup {roomId} |->
             IF r = roomId THEN NewRoom(roomId) ELSE rms[r]]

DeleteRoom(rms, roomId) == [r \in DOMAIN rms \ {roomId} |-> rms[r]]

\* Object.keys(room.players): insertion order
PlayerIds(room) == [i \in 1..Len(room.players) |-> room.players[i].id]

HasPlayer(room, sid) == \E i \in 1..Len(room.players) : room.players[i].id = sid

PlayerOf(room, sid) ==
    room.players[CHOOSE i \in 1..Len(room.players) : room.players[i].id = sid]

getPlayerList(room) == room.players

\* faulty variant: the key is not deleted
DeletePlayerKeeps(room, sid) == room

\* delete room.players[sid]
DeletePlayer(room, sid) ==
    [room EXCEPT !.players = SelectSeq(room.players, LAMBDA p : p.id # sid)]

\* room.players[sid] = player: an existing key keeps its position
PutPlayer(room, player) ==
    IF HasPlayer(room, player.id)
    THEN [room EXCEPT !.players =
             [i \in 1..Len(room.players) |->
                 IF room.players[i].id = player.id THEN player ELSE room.players[i]]]
    ELSE [room EXCEPT !.players = Append(room.players, player)]

-----------------------------------------------------------------------------
(* Outbound messages: io.to(target).emit(ev, data) *)

Msg(target, ev, data) == [to |-> target, ev |-> ev, data |-> data]

NoData == [none |-> TRUE]

broadcastRoomState(rms, roomId) ==
    IF roomId \notin DOMAIN rms
    THEN <<>>
    ELSE LET room == rms[roomId]
         IN  << Msg(roomId, "roomState",
                    [players |-> getPlayerList(room), drawerId |-> room.drawerId,
                     round |-> room.round, maxRounds |-> room.maxRounds,
                     category |-> room.category, roundActive |-> room.roundActive]) >>

-----------------------------------------------------------------------------
(* Timers: setTimeout / clearTimeout *)

TimerDelay(kind) ==
    CASE kind = "hint" -> HINT_DELAY_MS
      [] kind = "timeout" -> ROUND_DURATION_MS
      [] kind = "cooldown" -> COOLDOWN_MS

TimerIdsInUse(rms, tms) ==
    {tms[i].id : i \in 1..Len(tms)}
        \cup {rms[r].timerId : r \in DOMAIN rms}
        \cup {rms[r].hintTimerId : r \in DOMAIN rms}

\* a handle distinct from every pending timer and every handle still stored
FreshTimerId(rms, tms) ==
    LET used == TimerIdsInUse(rms, tms)
    IN  CHOOSE n \in 1..(Cardinality(used) + 1) :
            n \notin used /\ \A m \in 1..(n - 1) : m \in used

SetTimeout(tms, id, kind, roomId) ==
    Append(tms, [id |-> id, kind |-> kind, roomId |-> roomId, endOf |-> 0])

\* clearTimeout(handle): no effect when the callback has already run
ClearTimeout(tms, id) == SelectSeq(tms, LAMBDA t : t.id # id)

RemoveAt(tms, i) == [j \in 1..(Len(tms) - 1) |-> IF j < i THEN tms[j] ELSE tms[j + 1]]

\* The event loop runs callbacks in deadline order: a callback scheduled no
\* later than another one and with no longer a delay runs before it.
CanFire(i) ==
    \A j \in 1..(i - 1) : TimerDelay(timers[j].kind) > TimerDelay(timers[i].kind)

-----------------------------------------------------------------------------
(* Round state machine *)

clearRoomTimers(rms, tms, roomId) ==
    LET room == rms[roomId]
        tms1 == IF room.timerId # NoTimer THEN ClearTimeout(tms, room.timerId) ELSE tms
        tms2 == IF room.hintTimerId # NoTimer
                THEN ClearTimeout(tms1, room.hintTimerId) ELSE tms1
    IN  [rooms |-> [rms EXCEPT ![roomId].timerId = NoTimer,
                               ![roomId].hintTimerId = NoTimer],
         timers |-> tms2]

IndexOf(ids, x) ==
    IF \E i \in 1..Len(ids) : ids[i] = x
    THEN (CHOOSE i \in 1..Len(ids) : ids[i] = x) - 1
    ELSE -1

\* faulty variant: no rotation, the first player always draws
chooseNextDrawerIdFirst(room) ==
    IF Len(room.players) = 0 THEN NULL ELSE PlayerIds(room)[1]

chooseNextDrawerId(room) ==
    LET ids == PlayerIds(room)
        idx == IndexOf(ids, room.drawerId)
    IN  IF Len(ids) = 0 THEN NULL
        ELSE IF room.drawerId = NULL THEN ids[1]
        ELSE IF idx = -1 \/ idx = Len(ids) - 1 THEN ids[1]
        ELSE ids[idx + 2]

\* whether startRound(roomId) gets as far as drawing a word
StartRoundDraws(rms, roomId) ==
    /\ roomId \in DOMAIN rms
    /\ Len(rms[roomId].players) # 0
    /\ rms[roomId].round + 1 <= rms[roomId].maxRounds

StartRoundWords(rms, roomId) ==
    IF StartRoundDraws(rms, roomId) THEN getRandomWord(rms[roomId].category) ELSE {NoWord}

\* faulty variant: the word and the drawer of the last round are kept
GameOverBranchKeepsWord(rms, tms, roomId, room) ==
    LET ended == [room EXCEPT !.roundActive = FALSE]
        rms2 == [rms EXCEPT ![roomId] = ended]
    IN  [rooms |-> rms2, timers |-> tms,
         out |-> << Msg(roomId, "gameEnded", [players |-> getPlayerList(ended)]),
                    Msg(roomId, "clearCanvas", NoData),
                    Msg(roomId, "hintUpdated", [hint |-> <<>>]) >>
                 \o broadcastRoomState(rms2, roomId)]

GameOverBranch(rms, tms, roomId, room) ==
    LET ended == [room EXCEPT !.roundActive = FALSE, !.currentWord = NoWord,
                              !.drawerId = NULL]
        rms2 == [rms EXCEPT ![roomId] = ended]
    IN  [rooms |-> rms2, timers |-> tms,
         out |-> << Msg(roomId, "gameEnded", [players |-> getPlayerList(ended)]),
                    Msg(roomId, "clearCanvas", NoData),
                    Msg(roomId, "hintUpdated", [hint |-> <<>>]) >>
                 \o broadcastRoomState(rms2, roomId)]

\* faulty variant: the word goes to the room instead of the drawer's own channel
WordForDrawerToRoom(room) ==
    << Msg(room.id, "wordForDrawer", [word |-> room.currentWord]) >>

WordForDrawer(room) ==
    IF room.drawerId # NULL /\ room.currentWord # NoWord
    THEN << Msg(room.drawerId, "wordForDrawer", [word |-> room.currentWord]) >>
    ELSE <<>>

NewRoundBranch(rms, tms, roomId, room, word) ==
    LET started == [room EXCEPT !.drawerId = chooseNextDrawerId(room),
                                !.currentWord = word, !.roundActive = TRUE]
        rms2 == [rms EXCEPT ![roomId] = started]
        hintId == FreshTimerId(rms2, tms)
        tms3 == SetTimeout(tms, hintId, "hint", roomId)
        rms3 == [rms2 EXCEPT ![roomId].hintTimerId = hintId]
        timerId == FreshTimerId(rms3, tms3)
        tms4 == SetTimeout(tms3, timerId, "timeout", roomId)
        rms4 == [rms3 EXCEPT ![roomId].timerId = timerId]
    IN  [rooms |-> rms4, timers |-> tms4,
         out |-> << Msg(roomId, "clearCanvas", NoData),
                    Msg(roomId, "hintUpdated", [hint |-> <<>>]),
                    Msg(roomId, "roundStarted",
                        [round |-> started.round, maxRounds |-> started.maxRounds,
                         drawerId |-> started.drawerId,
                         roundDurationSec |-> ROUND_DURATION_SEC]) >>
                 \o WordForDrawer(started)
                 \o broadcastRoomState(rms2, roomId)]

\* faulty variant: the counter is raised by two
startRoundSkipsOne(rms, tms, roomId, word) ==
    IF roomId \notin DOMAIN rms THEN [rooms |-> rms, timers |-> tms, out |-> <<>>]
    ELSE IF Len(rms[roomId].players) = 0 THEN [rooms |-> rms, timers |-> tms, out |-> <<>>]
    ELSE LET cleared == clearRoomTimers(rms, tms, roomId)
             room == [cleared.rooms[roomId] EXCEPT !.round = @ + 2]
         IN  IF room.round > room.maxRounds
             THEN GameOverBranch(cleared.rooms, cleared.timers, roomId, room)
             ELSE NewRoundBranch(cleared.rooms, cleared.timers, roomId, room, word)

\* startRound(roomId); word is the value getRandomWord returns if it is called
startRound(rms, tms, roomId, word) ==
    IF roomId \notin DOMAIN rms THEN [rooms |-> rms, timers |-> tms, out |-> <<>>]
    ELSE IF Len(rms[roomId].players) = 0 THEN [rooms |-> rms, timers |-> tms, out |-> <<>>]
    ELSE LET cleared == clearRoomTimers(rms, tms, roomId)
             room == [cleared.rooms[roomId] EXCEPT !.round = @ + 1]
         IN  IF room.round > room.maxRounds
             THEN GameOverBranch(cleared.rooms, cleared.timers, roomId, room)
             ELSE NewRoundBranch(cleared.rooms, cleared.timers, roomId, room, word)

RoundEndedNotices(roomId, reason, who, round) ==
    << Msg(roomId, "roundEnded", [reason |-> reason, nickname |-> who, round |-> round]),
       Msg(roomId, "clearCanvas", NoData),
       Msg(roomId, "hintUpdated", [hint |-> <<>>]) >>

\* setTimeout whose handle the code discards: no clearTimeout can name it
ScheduleCooldown(rms, tms, roomId) ==
    Append(tms, [id |-> NoTimer, kind |-> "cooldown", roomId |-> roomId,
                 endOf |-> rms[roomId].round])

\* history: the cooldowns of roomId no longer belong to a round end that the
\* room has followed without interruption (a startGame was accepted, or the
\* room lost its last player)
Forget(tms, roomId) ==
    [i \in 1..Len(tms) |->
        IF tms[i].roomId = roomId THEN [tms[i] EXCEPT !.endOf = 0] ELSE tms[i]]

-----------------------------------------------------------------------------
(* Inputs of the events *)

DEFAULT_NICKNAME == <<51061, 47749>>

\* the nickname each client types: blank, padded, plain
NicknameTyped(sid) ==
    CASE sid = "s1" -> <<32>>
      [] sid = "s2" -> <<32, 66, 111, 98, 32>>
      [] OTHER -> <<65, 110, 110>>

\* category key sent with setCategory: the empty key, which selects the default
CategoryInputs == {""}

\* texts sent with answer by sid: blank, a greeting in capitals, and the word
\* of the room sid is bound to (if it has one) typed with surrounding blanks
AnswerInputs(sid) ==
    {<<32>>, <<32, 72, 73>>}
        \cup (IF sid \in DOMAIN socketRoomMap /\ socketRoomMap[sid] \in DOMAIN rooms
              THEN {<<32>> \o rooms[socketRoomMap[sid]].currentWord \o <<32>>}
              ELSE {})

\* texts sent with chatMessage
ChatInputs == {<<72, 105, 33>>}

-----------------------------------------------------------------------------
(* Initial state: the process has started, nobody has connected *)

Init ==
    /\ rooms = << >>
    /\ socketRoomMap = << >>
    /\ timers = << >>
    /\ disconnected = {}
    /\ steady = {}
    /\ out = << >>

-----------------------------------------------------------------------------
(* Socket event handlers *)

\* socket.on("joinRoom"): trimmedRoomId is the trimmed input or, for a blank
\* input, the random identifier
JoinRoomResult(rms, srm, sid, trimmedRoomId, nickname) ==
    LET trimmedNick == IF Trim(nickname) # <<>> THEN Trim(nickname) ELSE DEFAULT_NICKNAME
        rms1 == getOrCreateRoom(rms, trimmedRoomId)
        leaves == sid \in DOMAIN srm /\ srm[sid] \in DOMAIN rms1
        rms2 == IF leaves
                THEN [rms1 EXCEPT ![srm[sid]] = DeletePlayer(@, sid)]
                ELSE rms1
        out1 == IF leaves THEN broadcastRoomState(rms2, srm[sid]) ELSE <<>>
        srm2 == [s \in DOMAIN srm \cup {sid} |-> IF s = sid THEN trimmedRoomId ELSE srm[s]]
        rms3 == [rms2 EXCEPT ![trimmedRoomId] =
                    PutPlayer(@, [id |-> sid, nickname |-> trimmedNick, score |-> 0])]
    IN  [rooms |-> rms3, socketRoomMap |-> srm2,
         out |-> out1
                 \o << Msg(trimmedRoomId, "systemMessage",
                           [nickname |-> trimmedNick, what |-> "joined"]) >>
                 \o broadcastRoomState(rms3, trimmedRoomId)]

JoinRoom(sid, trimmedRoomId) ==
    /\ sid \notin disconnected
    /\ \E res \in {JoinRoomResult(rooms, socketRoomMap, sid, trimmedRoomId, NicknameTyped(sid))} :
           /\ rooms' = res.rooms
           /\ socketRoomMap' = res.socketRoomMap
           /\ out' = res.out
           /\ steady' = (steady \ {trimmedRoomId})
                            \ (IF sid \in DOMAIN socketRoomMap THEN {socketRoomMap[sid]} ELSE {})
           /\ timers' = IF /\ sid \in DOMAIN socketRoomMap
                           /\ socketRoomMap[sid] \in DOMAIN res.rooms
                           /\ Len(res.rooms[socketRoomMap[sid]].players) = 0
                        THEN Forget(timers, socketRoomMap[sid])
                        ELSE timers
    /\ UNCHANGED disconnected

\* socket.on("setCategory")
SetCategoryResult(rms, srm, sid, cat) ==
    IF sid \notin DOMAIN srm \/ srm[sid] \notin DOMAIN rms
    THEN [rooms |-> rms, out |-> <<>>]
    ELSE LET roomId == srm[sid]
             rms2 == [rms EXCEPT ![roomId].category = IF cat # "" THEN cat ELSE "food"]
         IN  [rooms |-> rms2, out |-> broadcastRoomState(rms2, roomId)]

SetCategory(sid, cat) ==
    /\ sid \notin disconnected
    /\ \E res \in {SetCategoryResult(rooms, socketRoomMap, sid, cat)} :
           /\ rooms' = res.rooms
           /\ out' = res.out
    /\ UNCHANGED <<socketRoomMap, timers, disconnected, steady>>

\* faulty variant: the test of roundActive is lost
StartGameResultAlways(rms, tms, roomId, word) ==
    LET rms1 == getOrCreateRoom(rms, roomId)
        rms2 == [rms1 EXCEPT ![roomId].round = 0,
                             ![roomId].currentWord = NoWord,
                             ![roomId].drawerId = NULL]
        res == startRound(rms2, tms, roomId, word)
    IN  [rooms |-> res.rooms, timers |-> res.timers,
         out |-> << Msg(roomId, "systemMessage",
                        [nickname |-> <<>>, what |-> "gameStarts"]) >> \o res.out,
         accepted |-> TRUE]

\* socket.on("startGame")
StartGameResult(rms, tms, roomId, word) ==
    LET rms1 == getOrCreateRoom(rms, roomId)
    IN  IF rms1[roomId].roundActive
        THEN [rooms |-> rms1, timers |-> tms, out |-> <<>>, accepted |-> FALSE]
        ELSE LET rms2 == [rms1 EXCEPT ![roomId].round = 0,
                                      ![roomId].currentWord = NoWord,
                                      ![roomId].drawerId = NULL]
                 res == startRound(rms2, tms, roomId, word)
             IN  [rooms |-> res.rooms, timers |-> res.timers,
                  out |-> << Msg(roomId, "systemMessage",
                                 [nickname |-> <<>>, what |-> "gameStarts"]) >> \o res.out,
                  accepted |-> TRUE]

\* the registry as startRound finds it when startGame calls it
BeforeFirstRound(rms, roomId) ==
    [getOrCreateRoom(rms, roomId) EXCEPT ![roomId].round = 0]

\* the handler from its first line: if (!roomId) return
StartGameOf(rms, tms, srm, sid, word) ==
    IF sid \notin DOMAIN srm
    THEN [rooms |-> rms, timers |-> tms, out |-> <<>>, accepted |-> FALSE]
    ELSE StartGameResult(rms, tms, srm[sid], word)

\* the values getRandomWord may return in the startRound that startGame of sid runs
StartGameWords(rms, srm, sid) ==
    IF sid \notin DOMAIN srm THEN {NoWord}
    ELSE IF getOrCreateRoom(rms, srm[sid])[srm[sid]].roundActive THEN {NoWord}
    ELSE StartRoundWords(BeforeFirstRound(rms, srm[sid]), srm[sid])

StartGame(sid) ==
    /\ sid \notin disconnected
    /\ \E word \in StartGameWords(rooms, socketRoomMap, sid) :
           \E res \in {StartGameOf(rooms, timers, socketRoomMap, sid, word)} :
               /\ Len(res.timers) <= MaxTimers
               /\ rooms' = res.rooms
               /\ timers' = IF res.accepted
                             THEN Forget(res.timers, socketRoomMap[sid]) ELSE res.timers
               /\ out' = res.out
               /\ steady' = IF res.accepted
                             THEN steady \cup {socketRoomMap[sid]} ELSE steady
    /\ UNCHANGED <<socketRoomMap, disconnected>>

-----------------------------------------------------------------------------
(* Answer evaluator *)

Chat(roomId, player, text) ==
    Msg(roomId, "chat", [nickname |-> player.nickname, message |-> text, correct |-> FALSE])

\* normalizedInput === normalizedAnswer
AnswerMatches(text, word) == ToLowerCase(text) = ToLowerCase(word)

\* faulty variant: the drawer check is lost
IsDrawerNever(room, sid) == FALSE

\* room.drawerId === socket.id
IsDrawer(room, sid) == room.drawerId = sid

\* faulty variant: the reward goes to every player of the room
AddScoreAll(room, sid, points) ==
    [room EXCEPT !.players =
        [i \in 1..Len(room.players) |-> [room.players[i] EXCEPT !.score = @ + points]]]

AddScore(room, sid, points) ==
    [room EXCEPT !.players =
        [i \in 1..Len(room.players) |->
            IF room.players[i].id = sid
            THEN [room.players[i] EXCEPT !.score = @ + points]
            ELSE room.players[i]]]

CorrectAnswer(rms, tms, roomId, sid) ==
    LET scored == AddScore(rms[roomId], sid, REWARD)
        player == PlayerOf(scored, sid)
        rms2 == [rms EXCEPT ![roomId] = [scored EXCEPT !.roundActive = FALSE]]
    IN  [rooms |-> rms2,
         timers |-> ScheduleCooldown(rms2, tms, roomId),
         out |-> << Msg(roomId, "answerResult",
                        [correct |-> TRUE, playerId |-> player.id,
                         nickname |-> player.nickname, word |-> scored.currentWord,
                         newScore |-> player.score]) >>
                 \o RoundEndedNotices(roomId, "guessed", player.nickname, scored.round)
                 \o broadcastRoomState(rms2, roomId)]

\* faulty variant: a text that is empty after trimming is relayed as chat
AnswerResultRelaysBlank(rms, tms, srm, sid, message) ==
    LET quiet == [rooms |-> rms, timers |-> tms, out |-> <<>>]
        text == Trim(message)
    IN  IF sid \notin DOMAIN srm THEN quiet
        ELSE IF srm[sid] \notin DOMAIN rms THEN quiet
        ELSE IF ~HasPlayer(rms[srm[sid]], sid) THEN quiet
        ELSE [quiet EXCEPT !.out = << Chat(srm[sid], PlayerOf(rms[srm[sid]], sid), text) >>]

\* socket.on("answer")
AnswerResult(rms, tms, srm, sid, message) ==
    LET quiet == [rooms |-> rms, timers |-> tms, out |-> <<>>]
        text == Trim(message)
    IN  IF sid \notin DOMAIN srm THEN quiet
        ELSE IF srm[sid] \notin DOMAIN rms THEN quiet
        ELSE IF ~HasPlayer(rms[srm[sid]], sid) THEN quiet
        ELSE IF text = <<>> THEN quiet
        ELSE LET roomId == srm[sid]
                 room == rms[roomId]
                 player == PlayerOf(room, sid)
             IN  IF ~room.roundActive \/ room.currentWord = NoWord
                 THEN [quiet EXCEPT !.out = << Chat(roomId, player, text) >>]
                 ELSE IF IsDrawer(room, sid)
                 THEN [quiet EXCEPT !.out = << Chat(roomId, player, text) >>]
                 ELSE IF AnswerMatches(text, room.currentWord)
                 THEN CorrectAnswer(rms, tms, roomId, sid)
                 ELSE [quiet EXCEPT !.out = << Chat(roomId, player, text) >>
                                           \o broadcastRoomState(rms, roomId)]

ScoresWithin(rms) ==
    \A r \in DOMAIN rms : \A i \in 1..Len(rms[r].players) :
        rms[r].players[i].score <= MaxWins * REWARD

Answer(sid, message) ==
    /\ sid \notin disconnected
    /\ \E res \in {AnswerResult(rooms, timers, socketRoomMap, sid, message)} :
           /\ Len(res.timers) <= MaxTimers
           /\ ScoresWithin(res.rooms)
           /\ rooms' = res.rooms
           /\ timers' = res.timers
           /\ out' = res.out
    /\ UNCHANGED <<socketRoomMap, disconnected, steady>>

\* socket.on("chatMessage"): the messages it emits (it assigns nothing)
ChatMessageResult(rms, srm, sid, message) ==
    IF sid \in DOMAIN srm /\ srm[sid] \in DOMAIN rms /\ HasPlayer(rms[srm[sid]], sid)
    THEN << Chat(srm[sid], PlayerOf(rms[srm[sid]], sid), message) >>
    ELSE <<>>

ChatMessage(sid, message) ==
    /\ sid \notin disconnected
    /\ out' = ChatMessageResult(rooms, socketRoomMap, sid, message)
    /\ UNCHANGED <<rooms, socketRoomMap, timers, disconnected, steady>>

-----------------------------------------------------------------------------
(* Disconnection *)

UNKNOWN_NICKNAME == <<50508, 32, 49688, 32, 50630, 51020>>

\* what the handler does with a room that keeps players
DisconnectSurvivor(rms, tms, roomId, sid) ==
    IF rms[roomId].drawerId = sid /\ rms[roomId].roundActive
    THEN LET rms2 == [rms EXCEPT ![roomId].roundActive = FALSE]
         IN  [rooms |-> rms2,
              timers |-> ScheduleCooldown(rms2, tms, roomId),
              out |-> RoundEndedNotices(roomId, "drawerLeft", <<>>, rms2[roomId].round)]
    ELSE [rooms |-> rms, timers |-> tms, out |-> broadcastRoomState(rms, roomId)]

\* the handler once the departing player has been removed and found to be the last
DisconnectLast(rms, tms, roomId) ==
    [rooms |-> DeleteRoom(rms, roomId), timers |-> tms, out |-> <<>>]

\* socket.on("disconnect")
DisconnectResult(rms, tms, srm, sid) ==
    IF sid \notin DOMAIN srm \/ srm[sid] \notin DOMAIN rms
    THEN [rooms |-> rms, timers |-> tms, socketRoomMap |-> srm, out |-> <<>>]
    ELSE LET roomId == srm[sid]
             nickname == IF HasPlayer(rms[roomId], sid)
                         THEN PlayerOf(rms[roomId], sid).nickname
                         ELSE UNKNOWN_NICKNAME
             rms1 == [rms EXCEPT ![roomId] = DeletePlayer(@, sid)]
             srm1 == [s \in DOMAIN srm \ {sid} |-> srm[s]]
             left == << Msg(roomId, "systemMessage",
                            [nickname |-> nickname, what |-> "left"]) >>
             rest == IF Len(rms1[roomId].players) = 0
                     THEN DisconnectLast(rms1, tms, roomId)
                     ELSE DisconnectSurvivor(rms1, tms, roomId, sid)
         IN  [rooms |-> rest.rooms, timers |-> rest.timers, socketRoomMap |-> srm1,
              out |-> left \o rest.out]

Disconnect(sid) ==
    /\ sid \notin disconnected
    /\ \E res \in {DisconnectResult(rooms, timers, socketRoomMap, sid)} :
           /\ Len(res.timers) <= MaxTimers
           /\ rooms' = res.rooms
           /\ timers' = IF sid \in DOMAIN socketRoomMap /\ socketRoomMap[sid] \notin DOMAIN res.rooms
                        THEN Forget(res.timers, socketRoomMap[sid]) ELSE res.timers
           /\ socketRoomMap' = res.socketRoomMap
           /\ out' = res.out
    /\ disconnected' = disconnected \cup {sid}
    /\ steady' = steady \ (IF sid \in DOMAIN socketRoomMap THEN {socketRoomMap[sid]} ELSE {})

-----------------------------------------------------------------------------
(* Timer callbacks *)

\* the hint callback of startRound
HintTimerFires(i) ==
    /\ i \in 1..Len(timers)
    /\ timers[i].kind = "hint"
    /\ CanFire(i)
    /\ LET roomId == timers[i].roomId
       IN  out' = IF \/ roomId \notin DOMAIN rooms
                     \/ ~rooms[roomId].roundActive
                     \/ rooms[roomId].currentWord = NoWord
                  THEN <<>>
                  ELSE << Msg(roomId, "hintUpdated",
                              [hint |-> makeChosungHint(rooms[roomId].currentWord)]) >>
    /\ timers' = RemoveAt(timers, i)
    /\ UNCHANGED <<rooms, socketRoomMap, disconnected, steady>>

\* the round-timeout callback of startRound
RoundTimeoutResult(rms, tms, roomId) ==
    IF roomId \notin DOMAIN rms \/ ~rms[roomId].roundActive
    THEN [rooms |-> rms, timers |-> tms, out |-> <<>>]
    ELSE LET rms2 == [rms EXCEPT ![roomId].roundActive = FALSE]
         IN  [rooms |-> rms2,
              timers |-> ScheduleCooldown(rms2, tms, roomId),
              out |-> RoundEndedNotices(roomId, "timeUp", <<>>, rms[roomId].round)
                      \o broadcastRoomState(rms2, roomId)]

RoundTimerFires(i) ==
    /\ i \in 1..Len(timers)
    /\ timers[i].kind = "timeout"
    /\ CanFire(i)
    /\ \E res \in {RoundTimeoutResult(rooms, RemoveAt(timers, i), timers[i].roomId)} :
           /\ rooms' = res.rooms
           /\ timers' = res.timers
           /\ out' = res.out
    /\ UNCHANGED <<socketRoomMap, disconnected, steady>>

\* setTimeout(() => startRound(roomId), 3000)
CooldownFires(i) ==
    /\ i \in 1..Len(timers)
    /\ timers[i].kind = "cooldown"
    /\ CanFire(i)
    /\ \E word \in StartRoundWords(rooms, timers[i].roomId) :
           \E res \in {startRound(rooms, RemoveAt(timers, i), timers[i].roomId, word)} :
               /\ Len(res.timers) <= MaxTimers
               /\ rooms' = res.rooms
               /\ timers' = res.timers
               /\ out' = res.out
    /\ UNCHANGED <<socketRoomMap, disconnected, steady>>

-----------------------------------------------------------------------------

\* the events the clients of sockets send, with room identifiers drawn from ids
ClientEvent(sockets, ids) ==
    \/ \E sid \in sockets, roomId \in ids : JoinRoom(sid, roomId)
    \/ \E sid \in sockets, cat \in CategoryInputs : SetCategory(sid, cat)
    \/ \E sid \in sockets : StartGame(sid)
    \/ \E sid \in sockets : \E message \in AnswerInputs(sid) : Answer(sid, message)
    \/ \E sid \in sockets, message \in ChatInputs : ChatMessage(sid, message)
    \/ \E sid \in sockets : Disconnect(sid)

TimerEvent ==
    \/ \E i \in 1..MaxTimers : HintTimerFires(i)
    \/ \E i \in 1..MaxTimers : RoundTimerFires(i)
    \/ \E i \in 1..MaxTimers : CooldownFires(i)

\* One lobby: two clients, both asking for room "r1"; all events and callbacks.
Next == ClientEvent({"s1", "s2"}, {"r1"}) \/ TimerEvent

Spec == Init /\ [][Next]_vars

\* Several rooms: two clients move between the rooms of RoomIds in a burst of
\* events shorter than the shortest timer delay, so that no callback is due.
NextRooms == ClientEvent({"s1", "s2"}, RoomIds)

SpecRooms == Init /\ [][NextRooms]_vars

\* The hint function on its own.  makeChosungHint takes any string: the hint
\* callback is applied to a round of one player whose word is every single
\* code unit from just below the syllable block to just above it, or a longer
\* string over code units at the edges of the block and of its first group.
HintSample == {65, HANGUL_FIRST - 1, HANGUL_FIRST, HANGUL_FIRST + 21 * 28 - 1,
               HANGUL_FIRST + 21 * 28, HANGUL_LAST, HANGUL_LAST + 1}

HintWords ==
    {<<c>> : c \in (HANGUL_FIRST - 1)..(HANGUL_LAST + 1)}
        \cup UNION {[1..n -> HintSample] : n \in 2..MaxLen}

InitHint ==
    /\ \E word \in HintWords :
           rooms = [r \in {"r1"} |->
                       [NewRoom("r1") EXCEPT
                           !.players = << [id |-> "s1", nickname |-> DEFAULT_NICKNAME,
                                           score |-> 0] >>,
                           !.drawerId = "s1", !.currentWord = word, !.round = 1,
                           !.roundActive = TRUE, !.hintTimerId = 1, !.timerId = 2]]
    /\ socketRoomMap = [s \in {"s1"} |-> "r1"]
    /\ timers = SetTimeout(SetTimeout(<<>>, 1, "hint", "r1"), 2, "timeout", "r1")
    /\ disconnected = {}
    /\ steady = {"r1"}
    /\ out = << >>

NextHint == \E i \in 1..MaxTimers : HintTimerFires(i)

SpecHint == InitHint /\ [][NextHint]_vars

\* A full table: three clients join room "r1", start games and leave, and the
\* rounds end by their timers.
NextRotation ==
    \/ \E sid \in SocketIds : JoinRoom(sid, "r1")
    \/ \E sid \in SocketIds : StartGame(sid)
    \/ \E sid \in SocketIds : Disconnect(sid)
    \/ TimerEvent

SpecRotation == Init /\ [][NextRotation]_vars

-----------------------------------------------------------------------------
(* Properties *)

Messages == {out[i] : i \in 1..Len(out)}

Emitted(ev) == \E i \in 1..Len(out) : out[i].ev = ev

Bound(sid, r) == sid \in DOMAIN socketRoomMap /\ socketRoomMap[sid] = r

PendingOf(r, kind) == {i \in 1..Len(timers) : timers[i].roomId = r /\ timers[i].kind = kind}

\* C1: in every room of the registry, an active round has a word and a drawer,
\* and the drawer is one of the room's players.
C1_ActiveRoundHasDrawerInRoom ==
    \A r \in DOMAIN rooms :
        rooms[r].roundActive =>
            /\ rooms[r].currentWord # NoWord
            /\ rooms[r].drawerId # NULL
            /\ HasPlayer(rooms[r], rooms[r].drawerId)

\* C2: in every room of the registry, active round or not, drawerId is unset
\* or names a player currently in the room.
C2_DrawerIsUnsetOrPlayer ==
    \A r \in DOMAIN rooms :
        rooms[r].drawerId = NULL \/ HasPlayer(rooms[r], rooms[r].drawerId)

\* C3: after every event, a connection is in a room's roster exactly when the
\* session index maps it to that room; so no connection is in two rosters and
\* every room the session index names is in the registry.
C3_SessionIndexInLockstep ==
    /\ \A sid \in SocketIds : \A r \in DOMAIN rooms :
           HasPlayer(rooms[r], sid) <=> Bound(sid, r)
    /\ \A sid \in SocketIds :
           Cardinality({r \in DOMAIN rooms : HasPlayer(rooms[r], sid)}) <= 1
    /\ \A sid \in DOMAIN socketRoomMap : socketRoomMap[sid] \in DOMAIN rooms

\* a connection has just left room r1, which other players keep, for room r2
C3_Witness ==
    /\ Len(out) = 3
    /\ out[1].ev = "roomState" /\ out[1].to = "r1" /\ Len(out[1].data.players) = 1
    /\ out[2].ev = "systemMessage" /\ out[2].to = "r2"
    /\ Cardinality(DOMAIN socketRoomMap) = 2

\* C4: after every event, every room of the registry has at least one player.
C4_NoEmptyRoomInRegistry ==
    \A r \in DOMAIN rooms : Len(rooms[r].players) >= 1

\* C5: the step that removes a room from the registry leaves no pending
\* round-timeout, hint or cooldown callback of that room.
C5_RemovalCancelsTimers ==
    [][\A r \in DOMAIN rooms :
          r \notin DOMAIN rooms' =>
              \A i \in 1..Len(timers') : timers'[i].roomId # r]_vars

\* C6: for every room identifier, at most one round-timeout callback and at
\* most one hint callback are pending.
C6_OneTimeoutOneHint ==
    \A r \in RoomIds :
        /\ Cardinality(PendingOf(r, "timeout")) <= 1
        /\ Cardinality(PendingOf(r, "hint")) <= 1

\* C7: while the roster of a room has not changed since the game was started,
\* the drawer of round k is the player at position ((k - 1) mod N) + 1 of the
\* insertion order: the first player in round 1, then the next one each round,
\* wrapping from the last to the first.
C7_DrawerRotation ==
    \A r \in steady :
        (rooms[r].round >= 1 /\ rooms[r].round <= rooms[r].maxRounds) =>
            rooms[r].drawerId =
                PlayerIds(rooms[r])[((rooms[r].round - 1) % Len(rooms[r].players)) + 1]

\* a game with three players has wrapped around: round 4 is drawn by the first player
C7_Witness ==
    \E r \in steady :
        /\ Len(rooms[r].players) = 3
        /\ rooms[r].round = 4
        /\ rooms[r].roundActive
        /\ rooms[r].drawerId = rooms[r].players[1].id

Contains(text, w) ==
    \E k \in 0..(Len(text) - Len(w)) : SubSeq(text, k + 1, k + Len(w)) = w

\* whether message m carries the text w in a field that holds a word, a hint
\* or a relayed text (nicknames, which clients choose, are left aside)
Carries(m, w) ==
    CASE m.ev \in {"wordForDrawer", "answerResult"} -> m.data.word = w
      [] m.ev = "chat" -> Contains(m.data.message, w)
      [] m.ev = "hintUpdated" -> m.data.hint = w
      [] OTHER -> FALSE

\* every wordForDrawer goes to the own channel of the drawer of a round that
\* has that word
WordOnlyToDrawer ==
    \A m \in Messages :
        m.ev = "wordForDrawer" =>
            \E r \in DOMAIN rooms :
                /\ m.to = rooms[r].drawerId
                /\ m.data.word = rooms[r].currentWord
                /\ rooms[r].roundActive

RoomWide(m) == m.to \in DOMAIN rooms /\ rooms[m.to].currentWord # NoWord

\* C8 as stated: the word reaches the drawer alone by unicast, no room-wide
\* message carries it while the round is active, and the only room-wide
\* message that carries it is the answerResult of the guess that ends the round.
C8_WordOnlyInAnswerResult ==
    /\ WordOnlyToDrawer
    /\ \A m \in Messages :
           (RoomWide(m) /\ Carries(m, rooms[m.to].currentWord)) =>
               (m.ev = "answerResult" /\ ~rooms[m.to].roundActive)

\* C8 as amended: the room-wide messages that carry the word are the
\* answerResult of the guess that ends the round and the chat relays of a text
\* that a client typed; no other notification of the server carries it.
C8_WordOnlyInAnswerResultOrChat ==
    /\ WordOnlyToDrawer
    /\ \A m \in Messages :
           (RoomWide(m) /\ Carries(m, rooms[m.to].currentWord)) =>
               \/ m.ev = "answerResult" /\ ~rooms[m.to].roundActive
               \/ m.ev = "chat"

\* a round has just started: the word went to the drawer, roundStarted to the room
C8_Witness ==
    /\ Emitted("roundStarted")
    /\ \E m \in Messages, r \in DOMAIN rooms :
           /\ m.ev = "wordForDrawer"
           /\ m.to = rooms[r].drawerId
           /\ m.data.word = rooms[r].currentWord
           /\ Len(rooms[r].players) = 2

EmittedIn(msgs, r, ev) == \E i \in 1..Len(msgs) : msgs[i].ev = ev /\ msgs[i].to = r

SameText(message, word) == ToLowerCase(Trim(message)) = ToLowerCase(word)

OnlyScoreChange(before, after, sid, points) ==
    /\ Len(after.players) = Len(before.players)
    /\ \A i \in 1..Len(before.players) :
           after.players[i] =
               IF before.players[i].id = sid
               THEN [before.players[i] EXCEPT !.score = @ + points]
               ELSE before.players[i]

\* the handler of "answer" applied to the current state
Answered(sid, message) == AnswerResult(rooms, timers, socketRoomMap, sid, message)

\* sid is a player of room r and sends a text that is not blank
Answers(sid, r, message) ==
    Bound(sid, r) /\ HasPlayer(rooms[r], sid) /\ Trim(message) # <<>>

Guessing(sid, r) ==
    rooms[r].roundActive /\ rooms[r].currentWord # NoWord /\ rooms[r].drawerId # sid

\* C9: an answer of a player other than the drawer during an active round,
\* equal to the word after trimming and ignoring case, adds exactly 10 to that
\* player's score and to no other, ends the round and emits answerResult and
\* roundEnded; a different text changes no score and leaves the round active;
\* an answer sent when no round is active changes no score.
C9_CorrectGuessScoresOnce ==
    \A sid \in SocketIds : \A r \in DOMAIN rooms : \A message \in AnswerInputs(sid) :
        Answers(sid, r, message) =>
            LET res == Answered(sid, message)
            IN  /\ (Guessing(sid, r) /\ SameText(message, rooms[r].currentWord)) =>
                       /\ OnlyScoreChange(rooms[r], res.rooms[r], sid, 10)
                       /\ ~res.rooms[r].roundActive
                       /\ EmittedIn(res.out, r, "answerResult")
                       /\ EmittedIn(res.out, r, "roundEnded")
                /\ (Guessing(sid, r) /\ ~SameText(message, rooms[r].currentWord)) =>
                       /\ res.rooms[r].players = rooms[r].players
                       /\ res.rooms[r].roundActive
                /\ ~rooms[r].roundActive =>
                       /\ res.rooms[r].players = rooms[r].players
                       /\ ~res.rooms[r].roundActive

\* a guess has just been rewarded and the round is over
C9_Witness ==
    \E r \in DOMAIN rooms :
        /\ Len(out) >= 2
        /\ out[1].ev = "answerResult" /\ out[1].data.newScore = 10
        /\ out[2].ev = "roundEnded"
        /\ ~rooms[r].roundActive
        /\ HasPlayer(rooms[r], out[1].data.playerId)
        /\ PlayerOf(rooms[r], out[1].data.playerId).score = 10
        /\ out[1].data.playerId # rooms[r].drawerId

\* C10: an answer of the current drawer during an active round, whatever its
\* text, changes no score, leaves the round active, schedules nothing and is
\* only relayed as a chat message with correct = FALSE.
C10_DrawerNeverScores ==
    \A sid \in SocketIds : \A r \in DOMAIN rooms : \A message \in AnswerInputs(sid) :
        (/\ Answers(sid, r, message)
         /\ rooms[r].roundActive
         /\ rooms[r].currentWord # NoWord
         /\ rooms[r].drawerId = sid) =>
            LET res == Answered(sid, message)
            IN  /\ res.rooms = rooms
                /\ res.timers = timers
                /\ Len(res.out) = 1
                /\ res.out[1].ev = "chat"
                /\ res.out[1].to = r
                /\ res.out[1].data.message = Trim(message)
                /\ res.out[1].data.correct = FALSE

\* the drawer has just sent the exact word of the active round as an answer
C10_Witness ==
    \E r \in DOMAIN rooms :
        /\ rooms[r].roundActive
        /\ HasPlayer(rooms[r], rooms[r].drawerId)
        /\ Len(rooms[r].players) = 2
        /\ Len(out) = 1
        /\ out[1].ev = "chat"
        /\ out[1].data.message = rooms[r].currentWord
        /\ out[1].data.nickname = PlayerOf(rooms[r], rooms[r].drawerId).nickname

\* round N of room r has ended and the callback that this end scheduled is pending
AwaitingNext(i) ==
    /\ timers[i].kind = "cooldown"
    /\ timers[i].endOf # 0
    /\ timers[i].roomId \in DOMAIN rooms

\* C11 (what the cooldown callback finds): from the end of round N until the
\* callback that this end scheduled runs, with the room keeping a player and no
\* startGame accepted, the room stays between rounds with its counter at N, so
\* that the startRound the callback runs once is the step that takes it to N+1.
C11_CooldownFindsRoundN ==
    \A i \in 1..Len(timers) :
        AwaitingNext(i) =>
            /\ rooms[timers[i].roomId].round = timers[i].endOf
            /\ ~rooms[timers[i].roomId].roundActive

\* the counter of room r is above maxRounds: the game is over
GameOver(r) == rooms[r].round > rooms[r].maxRounds

\* C12: a room whose counter startRound has raised above maxRounds has no
\* active round, no word, no drawer and no round-timeout or hint handle; this
\* lasts until startGame resets the counter.  The step that ends the game
\* broadcasts gameEnded with the room's roster and scores.
C12_GameOverIsIdle ==
    \A r \in DOMAIN rooms :
        /\ GameOver(r) =>
               /\ ~rooms[r].roundActive
               /\ rooms[r].currentWord = NoWord
               /\ rooms[r].drawerId = NULL
               /\ rooms[r].timerId = NoTimer
               /\ rooms[r].hintTimerId = NoTimer
        /\ \A i \in 1..Len(out) :
               (out[i].ev = "gameEnded" /\ out[i].to = r) =>
                   /\ GameOver(r)
                   /\ out[i].data.players = rooms[r].players

\* the sixth startRound of a game has just ended it, with a score on the board
C12_Witness ==
    \E r \in DOMAIN rooms :
        /\ EmittedIn(out, r, "gameEnded")
        /\ rooms[r].round = rooms[r].maxRounds + 1
        /\ ~rooms[r].roundActive
        /\ \E i \in 1..Len(rooms[r].players) : rooms[r].players[i].score = REWARD

\* C13: startGame from a connection whose room has an active round changes
\* neither the registry nor the pending timers and emits nothing; startGame
\* from a connection whose room has no active round leaves the room in round
\* 1, active, with a word of the pool, the first player in insertion order as
\* drawer, and every score as it was.
C13_StartGameOnlyBetweenRounds ==
    \A sid \in DOMAIN socketRoomMap :
        LET r == socketRoomMap[sid]
        IN  \A word \in StartGameWords(rooms, socketRoomMap, sid) :
                LET res == StartGameOf(rooms, timers, socketRoomMap, sid, word)
                IN  IF getOrCreateRoom(rooms, r)[r].roundActive
                    THEN /\ res.rooms = rooms
                         /\ res.timers = timers
                         /\ res.out = <<>>
                    ELSE /\ res.rooms[r].round = 1
                         /\ res.rooms[r].roundActive
                         /\ res.rooms[r].currentWord = word /\ word # NoWord
                         /\ res.rooms[r].players = getOrCreateRoom(rooms, r)[r].players
                         /\ Len(res.rooms[r].players) >= 1
                         /\ res.rooms[r].drawerId = res.rooms[r].players[1].id

\* a second game has just been started: a score of the first game is on the
\* board, the counter is back at 1 and the first player draws
C13_Witness ==
    \E r \in DOMAIN rooms :
        /\ Len(out) >= 1
        /\ out[1].ev = "systemMessage" /\ out[1].data.what = "gameStarts" /\ out[1].to = r
        /\ rooms[r].round = 1 /\ rooms[r].roundActive
        /\ Len(rooms[r].players) = 2
        /\ rooms[r].drawerId = rooms[r].players[1].id
        /\ rooms[r].players[2].score = REWARD

\* the step just taken was an accepted startGame of room r
GameJustStarted(msgs, r) ==
    /\ Len(msgs) >= 1
    /\ msgs[1].ev = "systemMessage" /\ msgs[1].data.what = "gameStarts" /\ msgs[1].to = r

\* C14: in every step, the counter of a room that stays in the registry is
\* unchanged or one higher, except in the step of an accepted startGame, which
\* leaves it at 1 (reset to 0, then the first startRound).
C14_CounterStepsByOne ==
    [][\A r \in DOMAIN rooms \cap DOMAIN rooms' :
          \/ rooms'[r].round = rooms[r].round
          \/ rooms'[r].round = rooms[r].round + 1
          \/ GameJustStarted(out', r) /\ rooms'[r].round = 1]_vars

\* the third round of a game has just been started by a cooldown callback
C14_Witness ==
    \E r \in DOMAIN rooms :
        /\ rooms[r].round = 3 /\ rooms[r].roundActive
        /\ Len(out) >= 3 /\ out[3].ev = "roundStarted" /\ out[3].data.round = 3

InBlock(c) == c >= 44032 /\ c <= 55203

\* floor((c - 0xAC00) / (21 * 28))
LeadIndex(c) == (c - 44032) \div (21 * 28)

\* C15: whenever a hint is emitted for a word, it has one character per
\* character of the word, in order; a character of the syllable block
\* 0xAC00..0xD7A3 has a leading-consonant index in 0..18 and is replaced by the
\* table entry of that index, never kept; every other character is copied.
\* The hint is thereby a function of the word.
C15_HintIsLeadingConsonants ==
    \A m \in Messages : \A r \in DOMAIN rooms :
        (m.ev = "hintUpdated" /\ m.to = r /\ m.data.hint # <<>>) =>
            LET w == rooms[r].currentWord
                h == m.data.hint
            IN  /\ Len(CHO) = 19
                /\ Len(h) = Len(w)
                /\ \A i \in 1..Len(w) :
                       IF InBlock(w[i])
                       THEN /\ LeadIndex(w[i]) \in 0..18
                            /\ h[i] = CHO[LeadIndex(w[i]) + 1]
                            /\ h[i] # w[i]
                       ELSE h[i] = w[i]

\* the hint of the last syllable of the block followed by a Latin letter
C15_Witness ==
    /\ Len(out) = 1
    /\ out[1].ev = "hintUpdated"
    /\ out[1].data.hint = <<CHO[19], 65>>
    /\ rooms["r1"].currentWord = <<55203, 65>>

\* C16: a round-timeout or hint callback that is due and whose guard lets it
\* act (the room of its identifier exists and has an active round, for the
\* hint also a word) is the callback whose handle that room holds, that is the
\* one scheduled by the startRound that began the round in progress.
C16_CallbackActsOnItsRound ==
    \A i \in 1..Len(timers) :
        (CanFire(i) /\ timers[i].roomId \in DOMAIN rooms) =>
            LET room == rooms[timers[i].roomId]
            IN  /\ (timers[i].kind = "timeout" /\ room.roundActive) =>
                       timers[i].id = room.timerId
                /\ (/\ timers[i].kind = "hint"
                    /\ room.roundActive
                    /\ room.currentWord # NoWord) =>
                       timers[i].id = room.hintTimerId

\* C17: a step that finds a round active in a room and leaves the room in the
\* registry either keeps the round as it is (active, same counter, drawer and
\* word) or ends it with a roundEnded broadcast, the counter unchanged; so no
\* startRound runs on a room whose round is active.
C17_ActiveRoundEndsByRoundEnded ==
    [][\A r \in DOMAIN rooms \cap DOMAIN rooms' :
          rooms[r].roundActive =>
              \/ /\ rooms'[r].roundActive
                 /\ rooms'[r].round = rooms[r].round
                 /\ rooms'[r].drawerId = rooms[r].drawerId
                 /\ rooms'[r].currentWord = rooms[r].currentWord
              \/ /\ ~rooms'[r].roundActive
                 /\ rooms'[r].round = rooms[r].round
                 /\ EmittedIn(out', r, "roundEnded")]_vars

\* C18: for every room identifier, at most two callbacks (round-timeout, hint
\* and cooldown counted together) are pending.
C18_AtMostTwoLiveTimers ==
    \A r \in RoomIds :
        Cardinality({i \in 1..Len(timers) : timers[i].roomId = r}) <= 2

\* sid has no entry in the session index
Unbound(sid) == sid \notin DOMAIN socketRoomMap

\* what a handler or callback returns when it has assigned and emitted nothing
Untouched == [rooms |-> rooms, timers |-> timers, out |-> <<>>]

\* C19: in every state, each event of a connection without session binding
\* (setCategory, startGame, answer, chatMessage, disconnect), each answer that
\* is empty after trimming, and startRound for a room that is not in the
\* registry or has no player, leaves the registry, every room, the session
\* index and the pending callbacks as they are and emits nothing.
C19_AbsentReferencesAreNoOps ==
    /\ \A sid \in SocketIds :
           Unbound(sid) =>
               /\ \A cat \in CategoryInputs \cup {"animal"} :
                      SetCategoryResult(rooms, socketRoomMap, sid, cat)
                          = [rooms |-> rooms, out |-> <<>>]
               /\ StartGameOf(rooms, timers, socketRoomMap, sid, NoWord)
                      = [rooms |-> rooms, timers |-> timers, out |-> <<>>,
                         accepted |-> FALSE]
               /\ \A message \in AnswerInputs(sid) : Answered(sid, message) = Untouched
               /\ \A message \in ChatInputs :
                      ChatMessageResult(rooms, socketRoomMap, sid, message) = <<>>
               /\ DisconnectResult(rooms, timers, socketRoomMap, sid)
                      = [rooms |-> rooms, timers |-> timers,
                         socketRoomMap |-> socketRoomMap, out |-> <<>>]
    /\ \A sid \in SocketIds : \A message \in AnswerInputs(sid) :
           Trim(message) = <<>> => Answered(sid, message) = Untouched
    /\ \A r \in RoomIds :
           (r \notin DOMAIN rooms \/ Len(rooms[r].players) = 0) =>
               \A word \in StartRoundWords(rooms, r) :
                   startRound(rooms, timers, r, word) = Untouched

\* a connection that never joined a room has been handled and nothing exists
C19_Witness ==
    /\ rooms = << >>
    /\ socketRoomMap = << >>
    /\ timers = << >>
    /\ out = << >>
    /\ disconnected # {}

\* C20: the counter of every room lies in 0..maxRounds + 1, and a step that
\* broadcasts gameEnded leaves it at maxRounds + 1; since only an accepted
\* startGame lowers the counter, gameEnded is then broadcast once per game.
C20_CounterWithinGame ==
    \A r \in DOMAIN rooms :
        /\ rooms[r].round >= 0
        /\ rooms[r].round <= rooms[r].maxRounds + 1
        /\ EmittedIn(out, r, "gameEnded") => rooms[r].round = rooms[r].maxRounds + 1

====
